---- MODULE Spec2Model ----
(***************************************************************************)
(* Model of the MCP chat backend (server.ts, multi-step tool loop):        *)
(* the connection registry activeMCPConnections, the REST handlers         *)
(* /api/mcp/connect, /api/mcp/disconnect, /api/mcp/tools and /api/chat,    *)
(* and the context budget functions (strTokens .. pruneConversation).      *)
(*                                                                         *)
(* Strings whose characters matter (session ids, server ids, tool names,   *)
(* registry keys) are sequences of one-character strings.  A message       *)
(* content is represented by its kind, its length in UTF-16 units and the  *)
(* number of truncation markers it ends with: the budget code reads        *)
(* nothing else of it.                                                     *)
(*                                                                         *)
(* Every handler is an async function on the single-threaded event loop:   *)
(* one action is the code between two awaits of an external operation      *)
(* (client.connect, client.listTools, client.callTool, client.close,       *)
(* openai.chat.completions.create).                                        *)
(***************************************************************************)
EXTENDS Integers, Sequences, FiniteSets, TLC

VARIABLES
    activeMCPConnections, \* the Map<string, Client>: entries in insertion order
    clients,              \* every Client ever constructed, by client number
    req,                  \* one record per HTTP request slot
    fitIn, fitOut,        \* pruneConversation applied to an input conversation
    nsIn, nsOut,          \* tool-name encoding applied to (serverId, toolName)
    estIn, estOut,        \* msgTokens applied to two messages
    ACTIVE,               \* chat-store backend: the active-connection table
    chatStore,            \* chat-store backend: the chats, in creation order
    bee                   \* chat-store backend: one record per HTTP request slot

vars == <<activeMCPConnections, clients, req, fitIn, fitOut, nsIn, nsOut, estIn, estOut,
         ACTIVE, chatStore, bee>>

---------------------------------------------------------------------------
(* Strings *)

Dash == "-"
Underscore == "_"

\* String.prototype.startsWith
StartsWith(s, prefix) ==
    /\ Len(prefix) <= Len(s)
    /\ SubSeq(s, 1, Len(prefix)) = prefix

\* String.prototype.slice(n)
SliceFrom(s, n) == SubSeq(s, n + 1, Len(s))

\* Position of the first occurrence of ch in s, 0 when there is none
FirstIndex(s, ch) ==
    IF \E i \in 1..Len(s) : s[i] = ch
    THEN CHOOSE i \in 1..Len(s) : s[i] = ch /\ \A j \in 1..(i - 1) : s[j] # ch
    ELSE 0

\* `${sessionId}-${id}`
MakeKey(sessionId, id) == sessionId \o <<Dash>> \o id

\* extractServerId(key, sessionId): the string after the prefix, or a throw
extractServerIdThrows(key, sessionId) == ~StartsWith(key, sessionId \o <<Dash>>)
extractServerId(key, sessionId) == SliceFrom(key, Len(sessionId) + 1)

\* `${serverId}_${t.name}`
EncodeToolName(serverId, toolName) == serverId \o <<Underscore>> \o toolName

\* const [serverId, ...fnParts] = fullName.split('_'); fnName = fnParts.join('_')
DecodeServerId(fullName) ==
    IF FirstIndex(fullName, Underscore) = 0 THEN fullName
    ELSE SubSeq(fullName, 1, FirstIndex(fullName, Underscore) - 1)
DecodeFnName(fullName) ==
    IF FirstIndex(fullName, Underscore) = 0 THEN <<>>
    ELSE SliceFrom(fullName, FirstIndex(fullName, Underscore))

---------------------------------------------------------------------------
(* The Map activeMCPConnections.  ECMAScript keeps the entries of a Map in *)
(* a list in insertion order; delete empties the entry in place and a live *)
(* iterator walks the list by position, so an entry is a record            *)
(* [key, client] and a deleted one has the empty key and client 0.         *)

NoClient == 0
EmptyEntry == [key |-> <<>>, client |-> NoClient]

MapHas(m, key) == \E i \in 1..Len(m) : m[i].key = key
MapGet(m, key) ==
    IF MapHas(m, key) THEN m[CHOOSE i \in 1..Len(m) : m[i].key = key].client
    ELSE NoClient
MapSet(m, key, c) ==
    IF MapHas(m, key)
    THEN [i \in 1..Len(m) |-> IF m[i].key = key THEN [key |-> key, client |-> c] ELSE m[i]]
    ELSE Append(m, [key |-> key, client |-> c])
\* a delete that removes nothing
MapDeleteNothing(m, key) == m
MapDelete(m, key) ==
    [i \in 1..Len(m) |-> IF m[i].key = key THEN EmptyEntry ELSE m[i]]
MapSize(m) == Cardinality({i \in 1..Len(m) : m[i].key # <<>>})

---------------------------------------------------------------------------
(* Context budget *)

MAX_CONTEXT_TOKENS == 120000
BYTES_PER_TOKEN == 3
MAX_SINGLE_MSG_TOKENS == 8000
StrLenCap == 1000000
NullContentTokens == 4
\* '…[truncated]'.length
MarkerLen == 12

Min(a, b) == IF a < b THEN a ELSE b
CeilDiv(a, b) == (a + b - 1) \div b

\* the cap taken as a remainder: len % 1_000_000 in place of Math.min
strTokensWraps(len) == CeilDiv(len % StrLenCap, BYTES_PER_TOKEN)

strTokens(len) == CeilDiv(Min(len, StrLenCap), BYTES_PER_TOKEN)

\* clipMessage with a slice that spares the markers already appended
clipMessageStacks(msg) ==
    IF msg.kind = "string" /\ strTokens(msg.len) > MAX_SINGLE_MSG_TOKENS
    THEN [msg EXCEPT !.len = Min(msg.len, MAX_SINGLE_MSG_TOKENS * BYTES_PER_TOKEN
                                            + msg.marks * MarkerLen) + MarkerLen,
                     !.marks = msg.marks + 1]
    ELSE msg

\* clipMessage: only string contents are clipped; slice(0, keep) cuts a
\* marker that lies beyond keep, and one marker is appended.
clipMessage(msg) ==
    IF msg.kind = "string" /\ strTokens(msg.len) > MAX_SINGLE_MSG_TOKENS
    THEN [msg EXCEPT !.len = Min(msg.len, MAX_SINGLE_MSG_TOKENS * BYTES_PER_TOKEN) + MarkerLen,
                     !.marks = 1]
    ELSE msg

msgTokens(msg) ==
    IF msg.kind = "null" THEN NullContentTokens ELSE strTokens(msg.len)

RECURSIVE totalTokens(_)
totalTokens(messages) ==
    IF messages = <<>> THEN 0
    ELSE msgTokens(Head(messages)) + totalTokens(Tail(messages))

\* the index of the oldest message whatever its role
FirstAny(messages) == IF Len(messages) > 0 THEN 1 ELSE 0

\* pruned.findIndex((m) => m.role !== 'system'), 0 for -1
FirstNonSystem(messages) ==
    IF \E i \in 1..Len(messages) : messages[i].role # "system"
    THEN CHOOSE i \in 1..Len(messages) :
            /\ messages[i].role # "system"
            /\ \A j \in 1..(i - 1) : messages[j].role = "system"
    ELSE 0

RemoveAt(s, i) == SubSeq(s, 1, i - 1) \o SubSeq(s, i + 1, Len(s))

\* the loop without the test pruned.length > 1
RECURSIVE DropLoopNoFloor(_)
DropLoopNoFloor(pruned) ==
    IF totalTokens(pruned) > MAX_CONTEXT_TOKENS
    THEN IF FirstNonSystem(pruned) = 0 THEN pruned
         ELSE DropLoopNoFloor(RemoveAt(pruned, FirstNonSystem(pruned)))
    ELSE pruned

RECURSIVE DropLoop(_)
DropLoop(pruned) ==
    IF totalTokens(pruned) > MAX_CONTEXT_TOKENS /\ Len(pruned) > 1
    THEN IF FirstNonSystem(pruned) = 0 THEN pruned
         ELSE DropLoop(RemoveAt(pruned, FirstNonSystem(pruned)))
    ELSE pruned

ClipAll(messages) == [i \in 1..Len(messages) |-> clipMessage(messages[i])]

pruneConversation(messages) == DropLoop(ClipAll(messages))

---------------------------------------------------------------------------
(* The curated catalogue and the inputs of the requests.  "fs" stands for  *)
(* the server id 'filesystem' and "b-s" for 'brave-search'; "r_f" and      *)
(* "w_s" stand for their tools 'read_file' and 'brave_web_search'; "g"     *)
(* stands for the server id 'github'.                                      *)

Filesystem == <<"f", "s">>
BraveSearch == <<"b", "-", "s">>
Github == <<"g">>
CURATED_MCP_SERVERS == {Filesystem, BraveSearch, Github}

\* The tools a provider process lists (client.listTools).  The answer is the
\* provider's to choose: the one of "g" holds the name "t" twice.
ServerTools(id) ==
    IF id = Filesystem THEN << <<"r", "_", "f">> >>
    ELSE IF id = BraveSearch THEN << <<"w", "_", "s">> >>
    ELSE << <<"t">>, <<"t">> >>

\* a server id that the catalogue does not hold
UnknownServer == <<"z">>

\* req.body.sessionId; the empty string stands for a missing session id
NoSession == <<>>
SessionIds == {<<"u">>, <<"u", "-", "1">>, <<"u", "1">>}

\* req.body.serverIds of a disconnect request when the field is absent
NoList == << <<"*">> >>

\* Upper end of req.body.maxTurns
MaxTurns == 2

\* Request slots.  Chat and tools requests read the registry and never write
\* it, so one reader slot runs against two slots of connect and disconnect
\* requests; the writer slots are numbered in arrival order.
WriterSlots == {"r1", "r2"}
ReaderSlots == {"r3"}
Requests == WriterSlots \cup ReaderSlots
Before(r) == IF r = "r2" THEN {"r1"} ELSE {}

---------------------------------------------------------------------------
(* Messages *)

NullMsg == [role |-> "null"]

\* a message of the conversation: content kind "null" | "string" | "parts",
\* its length, the truncation markers it carries, what it says (payload)
Msg(role, kind, len, payload) ==
    [role |-> role, kind |-> kind, len |-> len, marks |-> 0, payload |-> payload,
     tool_calls |-> <<>>, tool_call_id |-> 0]

UserText == Msg("user", "string", 30, "text")
SystemText == Msg("system", "string", 30, "text")
\* a scraped page pasted by the user: clipped to 8004 tokens by clipMessage
UserPage == Msg("user", "string", 30000, "text")

\* req.body.messages
LightConvo == <<UserText>>
HeavyConvo == <<SystemText>> \o [i \in 1..14 |-> UserPage]
ConvoInputs == {LightConvo, HeavyConvo}

\* lengths of JSON.stringify(result.content) of a successful tool call
ResultLens == {20, 30000}
\* length of JSON.stringify({ error: ... })
ErrorLen == 40

---------------------------------------------------------------------------
(* Requests.  A slot holds the locals of one handler invocation, as they   *)
(* are when the handler responds, and the response.                        *)

NoResp == [status |-> 0]

IdleReq ==
    [kind |-> "none", pc |-> "idle", sessionId |-> <<>>,
     \* connect / disconnect
     ids |-> <<>>, i |-> 0, results |-> <<>>,
     \* the awaited client and its key
     client |-> NoClient, key |-> <<>>,
     \* tools / chat: position of the Map iterator, the tools collected
     it |-> 0, toolsList |-> <<>>,
     \* chat
     maxTurns |-> 0, turn |-> 0, convo |-> <<>>,
     allToolCalls |-> <<>>, allToolResults |-> <<>>, lastAssistantMsg |-> NullMsg,
     calls |-> <<>>, ci |-> 0,
     \* audit: the number of model invocations; the callTool invocations; for
     \* every call that reached the dispatch, whether the registry held a
     \* connection of this session to the provider it names; whether a
     \* client was used after its close() had been called
     modelCalls |-> 0, invoked |-> <<>>, resolved |-> <<>>, sawClosing |-> FALSE,
     \* audit of a disconnect without serverIds: the clients that the registry
     \* held for connections of this session when the request arrived
     held |-> {},
     resp |-> NoResp]

\* res.json(...) / res.status(...).json(...): the handler is over
Respond(q, resp) == [q EXCEPT !.pc = "responded", !.resp = resp]

ErrorEnvelope(status) == [status |-> status]

\* the slots before r have received their request
Arrived(r) == req[r].kind = "none" /\ \A e \in Before(r) : req[e].kind # "none"

CloseStarted(cl, c) == c # NoClient /\ cl[c].st \in {"closing", "closed"}

\* the clients in the registry that connect requests of sessionId created
HeldBy(m, cl, sessionId) ==
    {m[i].client : i \in {j \in 1..Len(m) :
                            m[j].key # <<>> /\ cl[m[j].client].sess = sessionId}}

---------------------------------------------------------------------------
(* POST /api/mcp/connect *)

\* The for loop over serverIds from position i up to the next await: an id
\* with an entry is answered 'already connected', an id the catalogue does
\* not hold makes connectToMCPServer throw before anything is spawned.
\* the loop without the test activeMCPConnections.has(key)
RECURSIVE ConnectScanNoCheck(_, _, _)
ConnectScanNoCheck(q, m, cl) ==
    IF q.i > Len(q.ids) THEN [q EXCEPT !.pc = "end"]
    ELSE IF q.ids[q.i] \notin CURATED_MCP_SERVERS
    THEN ConnectScanNoCheck(
           [q EXCEPT !.i = q.i + 1,
                     !.results = Append(q.results, [id |-> q.ids[q.i], status |-> "failed"])],
           m, cl)
    ELSE [q EXCEPT !.pc = "handshake", !.key = MakeKey(q.sessionId, q.ids[q.i]),
                   !.client = Len(cl) + 1]

\* the loop with an error of connectToMCPServer thrown out of it
RECURSIVE ConnectScanStopsOnFailure(_, _, _)
ConnectScanStopsOnFailure(q, m, cl) ==
    IF q.i > Len(q.ids) THEN [q EXCEPT !.pc = "end"]
    ELSE LET id == q.ids[q.i]
             key == MakeKey(q.sessionId, id)
         IN IF MapHas(m, key)
            THEN ConnectScanStopsOnFailure(
                   [q EXCEPT !.i = q.i + 1,
                             !.results = Append(q.results, [id |-> id, status |-> "already connected"]),
                             !.sawClosing = q.sawClosing \/ CloseStarted(cl, MapGet(m, key))],
                   m, cl)
            ELSE IF id \notin CURATED_MCP_SERVERS
            THEN [q EXCEPT !.pc = "end", !.i = q.i + 1,
                           !.results = Append(q.results, [id |-> id, status |-> "failed"])]
            ELSE [q EXCEPT !.pc = "handshake", !.key = key, !.client = Len(cl) + 1]

RECURSIVE ConnectScan(_, _, _)
ConnectScan(q, m, cl) ==
    IF q.i > Len(q.ids) THEN [q EXCEPT !.pc = "end"]
    ELSE LET id == q.ids[q.i]
             key == MakeKey(q.sessionId, id)
         IN IF MapHas(m, key)
            THEN ConnectScan(
                   [q EXCEPT !.i = q.i + 1,
                             !.results = Append(q.results, [id |-> id, status |-> "already connected"]),
                             !.sawClosing = q.sawClosing \/ CloseStarted(cl, MapGet(m, key))],
                   m, cl)
            ELSE IF id \notin CURATED_MCP_SERVERS
            THEN ConnectScan(
                   [q EXCEPT !.i = q.i + 1,
                             !.results = Append(q.results, [id |-> id, status |-> "failed"])],
                   m, cl)
            ELSE [q EXCEPT !.pc = "handshake", !.key = key, !.client = Len(cl) + 1]

\* new Client(...); client.connect(transport) spawns the provider process
SpawnClient(cl, sessionId, id) ==
    Append(cl, [sess |-> sessionId, prov |-> id, st |-> "connecting"])

ConnectProceed(r, q, m, cl) ==
    LET s == ConnectScan(q, m, cl)
    IN /\ activeMCPConnections' = m
       /\ IF s.pc = "handshake"
          THEN /\ clients' = SpawnClient(cl, s.sessionId, s.ids[s.i])
               /\ req' = [req EXCEPT ![r] = s]
          ELSE /\ clients' = cl
               /\ req' = [req EXCEPT ![r] =
                            Respond(s, [status |-> 200, connectedServers |-> s.results])]

StartConnect(r, sessionId, serverIds) ==
    /\ Arrived(r)
    /\ UNCHANGED <<fitIn, fitOut, nsIn, nsOut, estIn, estOut, ACTIVE, chatStore, bee>>
    /\ LET q == [IdleReq EXCEPT !.kind = "connect", !.sessionId = sessionId,
                                !.ids = serverIds, !.i = 1]
       IN IF sessionId = NoSession
          THEN /\ req' = [req EXCEPT ![r] = Respond(q, ErrorEnvelope(400))]
               /\ UNCHANGED <<activeMCPConnections, clients>>
          ELSE ConnectProceed(r, q, activeMCPConnections, clients)

\* the handshake with activeMCPConnections.set(key, client) before the
\* outcome of client.connect is known
ConnectHandshakeSetsFirst(r, ok) ==
    /\ req[r].kind = "connect" /\ req[r].pc = "handshake"
    /\ UNCHANGED <<fitIn, fitOut, nsIn, nsOut, estIn, estOut, ACTIVE, chatStore, bee>>
    /\ LET q == req[r]
           cl == [clients EXCEPT ![q.client].st = IF ok THEN "live" ELSE "closed"]
           m == MapSet(activeMCPConnections, q.key, q.client)
           next == [q EXCEPT !.i = q.i + 1, !.client = NoClient, !.key = <<>>,
                             !.results = Append(q.results,
                                 [id |-> q.ids[q.i],
                                  status |-> IF ok THEN "connected" ELSE "failed"])]
       IN ConnectProceed(r, next, m, cl)

\* await client.connect(transport) returns or throws
ConnectHandshake(r, ok) ==
    /\ req[r].kind = "connect" /\ req[r].pc = "handshake"
    /\ UNCHANGED <<fitIn, fitOut, nsIn, nsOut, estIn, estOut, ACTIVE, chatStore, bee>>
    /\ LET q == req[r]
           id == q.ids[q.i]
           cl == [clients EXCEPT ![q.client].st = IF ok THEN "live" ELSE "closed"]
           m == IF ok THEN MapSet(activeMCPConnections, q.key, q.client)
                ELSE activeMCPConnections
           next == [q EXCEPT !.i = q.i + 1, !.client = NoClient, !.key = <<>>,
                             !.results = Append(q.results,
                                 [id |-> id, status |-> IF ok THEN "connected" ELSE "failed"])]
       IN ConnectProceed(r, next, m, cl)

---------------------------------------------------------------------------
(* POST /api/mcp/disconnect *)

\* k.split('-')[1]
SplitDashSecond(k) ==
    LET rest == SliceFrom(k, FirstIndex(k, Dash))
    IN IF FirstIndex(rest, Dash) = 0 THEN rest
       ELSE SubSeq(rest, 1, FirstIndex(rest, Dash) - 1)

\* Array.from(keys()).filter((k) => k.startsWith(sessionId)).map(...)
RECURSIVE KeysOfSession(_, _)
KeysOfSession(m, sessionId) ==
    IF m = <<>> THEN <<>>
    ELSE IF Head(m).key # <<>> /\ StartsWith(Head(m).key, sessionId)
         THEN <<SplitDashSecond(Head(m).key)>> \o KeysOfSession(Tail(m), sessionId)
         ELSE KeysOfSession(Tail(m), sessionId)

\* the loop with disconnected.push(id) outside the test of the client
RECURSIVE DisconnectScanPushesAlways(_, _)
DisconnectScanPushesAlways(q, m) ==
    IF q.i > Len(q.ids) THEN [q EXCEPT !.pc = "end"]
    ELSE IF MapGet(m, MakeKey(q.sessionId, q.ids[q.i])) # NoClient
    THEN [q EXCEPT !.pc = "closing", !.key = MakeKey(q.sessionId, q.ids[q.i]),
                   !.client = MapGet(m, MakeKey(q.sessionId, q.ids[q.i]))]
    ELSE DisconnectScanPushesAlways(
           [q EXCEPT !.i = q.i + 1, !.results = Append(q.results, q.ids[q.i])], m)

\* The for loop over ids from position i up to the next await of close()
RECURSIVE DisconnectScan(_, _)
DisconnectScan(q, m) ==
    IF q.i > Len(q.ids) THEN [q EXCEPT !.pc = "end"]
    ELSE LET key == MakeKey(q.sessionId, q.ids[q.i])
         IN IF MapGet(m, key) # NoClient
            THEN [q EXCEPT !.pc = "closing", !.key = key, !.client = MapGet(m, key)]
            ELSE DisconnectScan([q EXCEPT !.i = q.i + 1], m)

\* client.close() is called: the transport starts to close
CallClose(cl, c) ==
    [cl EXCEPT ![c].st = IF @ = "closed" THEN "closed" ELSE "closing"]

DisconnectProceed(r, q, m, cl) ==
    LET s == DisconnectScan(q, m)
    IN /\ activeMCPConnections' = m
       /\ IF s.pc = "closing"
          THEN /\ clients' = CallClose(cl, s.client)
               /\ req' = [req EXCEPT ![r] = s]
          ELSE /\ clients' = cl
               /\ req' = [req EXCEPT ![r] =
                            Respond(s, [status |-> 200, disconnected |-> s.results])]

StartDisconnect(r, sessionId, serverIds) ==
    /\ Arrived(r)
    /\ UNCHANGED <<fitIn, fitOut, nsIn, nsOut, estIn, estOut, ACTIVE, chatStore, bee>>
    /\ LET ids == IF serverIds # NoList THEN serverIds
                  ELSE KeysOfSession(activeMCPConnections, sessionId)
           q == [IdleReq EXCEPT !.kind = "disconnect", !.sessionId = sessionId,
                                !.ids = ids, !.i = 1,
                                !.held = IF serverIds # NoList THEN {}
                                         ELSE HeldBy(activeMCPConnections, clients, sessionId)]
       IN IF sessionId = NoSession
          THEN /\ req' = [req EXCEPT ![r] = Respond(q, ErrorEnvelope(400))]
               /\ UNCHANGED <<activeMCPConnections, clients>>
          ELSE DisconnectProceed(r, q, activeMCPConnections, clients)

\* await client.close() returns; the entry of the key is deleted
DisconnectClosed(r) ==
    /\ req[r].kind = "disconnect" /\ req[r].pc = "closing"
    /\ UNCHANGED <<fitIn, fitOut, nsIn, nsOut, estIn, estOut, ACTIVE, chatStore, bee>>
    /\ LET q == req[r]
           cl == [clients EXCEPT ![q.client].st = "closed"]
           m == MapDelete(activeMCPConnections, q.key)
           next == [q EXCEPT !.i = q.i + 1, !.client = NoClient, !.key = <<>>,
                             !.results = Append(q.results, q.ids[q.i])]
       IN DisconnectProceed(r, next, m, cl)

---------------------------------------------------------------------------
(* Iterating the registry: for (const [key, client] of activeMCPConnections) *)

\* The first live entry at or after position it whose key starts with the
\* prefix, 0 when the iterator is exhausted
NextMatch(m, prefix, it) ==
    IF \E j \in it..Len(m) : m[j].key # <<>> /\ StartsWith(m[j].key, prefix)
    THEN CHOOSE j \in it..Len(m) :
            /\ m[j].key # <<>> /\ StartsWith(m[j].key, prefix)
            /\ \A k \in it..(j - 1) : ~(m[k].key # <<>> /\ StartsWith(m[k].key, prefix))
    ELSE 0

\* The entries svTools adds to the list: the tool names under serverId; the
\* client is kept to tell where an entry comes from
ListedTools(serverId, c, provider) ==
    [k \in 1..Len(ServerTools(provider)) |->
        [serverId |-> serverId, tool |-> ServerTools(provider)[k],
         name |-> EncodeToolName(serverId, ServerTools(provider)[k]), client |-> c]]

---------------------------------------------------------------------------
(* POST /api/mcp/tools *)

\* if (!key.startsWith(sessionId)) continue;
ToolsPrefix(sessionId) == sessionId

ToolsProceed(r, q, m, cl) ==
    LET j == NextMatch(m, ToolsPrefix(q.sessionId), q.it)
    IN IF j = 0
       THEN req' = [req EXCEPT ![r] = Respond(q, [status |-> 200, tools |-> q.toolsList])]
       ELSE IF extractServerIdThrows(m[j].key, q.sessionId)
       THEN req' = [req EXCEPT ![r] = Respond(q, ErrorEnvelope(500))]
       ELSE req' = [req EXCEPT ![r] =
                      [q EXCEPT !.pc = "listTools", !.it = j, !.key = m[j].key,
                                !.client = m[j].client,
                                !.sawClosing = q.sawClosing \/ CloseStarted(cl, m[j].client)]]

StartTools(r, sessionId) ==
    /\ Arrived(r)
    /\ UNCHANGED <<activeMCPConnections, clients, fitIn, fitOut, nsIn, nsOut, estIn, estOut, ACTIVE, chatStore, bee>>
    /\ LET q == [IdleReq EXCEPT !.kind = "tools", !.sessionId = sessionId, !.it = 1]
       IN IF sessionId = NoSession
          THEN req' = [req EXCEPT ![r] = Respond(q, ErrorEnvelope(400))]
          ELSE ToolsProceed(r, q, activeMCPConnections, clients)

\* await client.listTools() returns the provider's tools or throws; a closed
\* transport cannot answer
ToolsListed(r, ok) ==
    /\ req[r].kind = "tools" /\ req[r].pc = "listTools"
    /\ ok => clients[req[r].client].st # "closed"
    /\ UNCHANGED <<activeMCPConnections, clients, fitIn, fitOut, nsIn, nsOut, estIn, estOut, ACTIVE, chatStore, bee>>
    /\ LET q == req[r]
           serverId == extractServerId(q.key, q.sessionId)
           next == [q EXCEPT !.pc = "idle", !.it = q.it + 1, !.key = <<>>, !.client = NoClient,
                             !.toolsList = q.toolsList \o
                                 ListedTools(serverId, q.client, clients[q.client].prov)]
       IN IF ok THEN ToolsProceed(r, next, activeMCPConnections, clients)
          ELSE req' = [req EXCEPT ![r] = Respond(q, ErrorEnvelope(500))]

---------------------------------------------------------------------------
(* POST /api/chat *)

\* req.body.messages that is not an array
NotArray == <<NullMsg>>

\* if (!key.startsWith(`${sessionId}-`)) continue;
ChatPrefix(sessionId) == sessionId \o <<Dash>>

ToolMsg(id, len, payload) ==
    [role |-> "tool", kind |-> "string", len |-> len, marks |-> 0, payload |-> payload,
     tool_calls |-> <<>>, tool_call_id |-> id]

\* { role: 'assistant', content: null, tool_calls: assistant.tool_calls }
PlanMsg(calls) ==
    [role |-> "assistant", kind |-> "null", len |-> 0, marks |-> 0, payload |-> "plan",
     tool_calls |-> [k \in 1..Len(calls) |-> calls[k].id], tool_call_id |-> 0]

\* the assistant message of a completion without tool calls
FinalMsg == [role |-> "assistant", payload |-> "answer"]

ChatResponse(q) ==
    [status |-> 200, message |-> q.lastAssistantMsg,
     toolCalls |-> q.allToolCalls, toolResults |-> q.allToolResults]

\* the loop condition turn <= maxTurns in place of turn < maxTurns
LoopHeadOffByOne(q) ==
    IF q.turn <= q.maxTurns
    THEN [q EXCEPT !.pc = "model", !.convo = pruneConversation(q.convo),
                   !.modelCalls = q.modelCalls + 1,
                   !.calls = <<>>, !.ci = 0, !.it = 0]
    ELSE Respond(q, ChatResponse(q))

\* pruneConversation clipping the messages themselves instead of clones: the
\* tool messages are the objects that allToolResults holds
LoopHeadClipsInPlace(q) ==
    IF q.turn < q.maxTurns
    THEN [q EXCEPT !.pc = "model", !.convo = pruneConversation(q.convo),
                   !.allToolResults = ClipAll(q.allToolResults),
                   !.modelCalls = q.modelCalls + 1,
                   !.calls = <<>>, !.ci = 0, !.it = 0]
    ELSE Respond(q, ChatResponse(q))

\* Head of the for loop over turns: prune and ask the model, or respond
LoopHead(q) ==
    IF q.turn < q.maxTurns
    THEN [q EXCEPT !.pc = "model", !.convo = pruneConversation(q.convo),
                   !.modelCalls = q.modelCalls + 1,
                   !.calls = <<>>, !.ci = 0, !.it = 0]
    ELSE Respond(q, ChatResponse(q))

\* 1) Build the tools list: iterate the registry up to the next listTools
ChatBuildTools(r, q, m, cl, useMCP) ==
    LET j == IF useMCP THEN NextMatch(m, ChatPrefix(q.sessionId), q.it) ELSE 0
    IN IF j = 0
       THEN req' = [req EXCEPT ![r] = LoopHead(q)]
       ELSE req' = [req EXCEPT ![r] =
                      [q EXCEPT !.pc = "listTools", !.it = j, !.key = m[j].key,
                                !.client = m[j].client,
                                !.sawClosing = q.sawClosing \/ CloseStarted(cl, m[j].client)]]

\* the handler without the test of sessionId and Array.isArray(messages)
StartChatUnvalidated(r, sessionId, messages, useMCP, maxTurns) ==
    /\ Arrived(r)
    /\ UNCHANGED <<activeMCPConnections, clients, fitIn, fitOut, nsIn, nsOut, estIn, estOut, ACTIVE, chatStore, bee>>
    /\ LET q == [IdleReq EXCEPT !.kind = "chat", !.sessionId = sessionId, !.it = 1,
                                !.maxTurns = maxTurns,
                                !.convo = messages]
       IN ChatBuildTools(r, q, activeMCPConnections, clients, useMCP)

StartChat(r, sessionId, messages, useMCP, maxTurns) ==
    /\ Arrived(r)
    /\ UNCHANGED <<activeMCPConnections, clients, fitIn, fitOut, nsIn, nsOut, estIn, estOut, ACTIVE, chatStore, bee>>
    /\ LET q == [IdleReq EXCEPT !.kind = "chat", !.sessionId = sessionId, !.it = 1,
                                !.maxTurns = maxTurns,
                                !.convo = messages]
       IN IF sessionId = NoSession \/ messages = NotArray
          THEN req' = [req EXCEPT ![r] = Respond(q, ErrorEnvelope(400))]
          ELSE ChatBuildTools(r, q, activeMCPConnections, clients, useMCP)

ChatListed(r, ok) ==
    /\ req[r].kind = "chat" /\ req[r].pc = "listTools"
    /\ ok => clients[req[r].client].st # "closed"
    /\ UNCHANGED <<activeMCPConnections, clients, fitIn, fitOut, nsIn, nsOut, estIn, estOut, ACTIVE, chatStore, bee>>
    /\ LET q == req[r]
           serverId == extractServerId(q.key, q.sessionId)
           next == [q EXCEPT !.pc = "idle", !.it = q.it + 1, !.key = <<>>, !.client = NoClient,
                             !.toolsList = q.toolsList \o
                                 ListedTools(serverId, q.client, clients[q.client].prov)]
       IN IF ok THEN ChatBuildTools(r, next, activeMCPConnections, clients, TRUE)
          ELSE req' = [req EXCEPT ![r] = Respond(q, ErrorEnvelope(500))]

\* the registry holds a connection that sessionId made to serverId
Owned(m, cl, sessionId, serverId) ==
    \E i \in 1..Len(m) :
        /\ m[i].key # <<>>
        /\ cl[m[i].client].sess = sessionId
        /\ cl[m[i].client].prov = serverId

\* The for loop over assistant.tool_calls from position ci up to the next
\* await of callTool, the end of the calls, or a throw of JSON.parse
\* the loop with client.callTool(...) started and not awaited
RECURSIVE DispatchScanNoAwait(_, _, _)
DispatchScanNoAwait(q, m, cl) ==
    IF q.ci > Len(q.calls) THEN [q EXCEPT !.pc = "endturn"]
    ELSE LET call == q.calls[q.ci]
             serverId == DecodeServerId(call.name)
             clientKey == MakeKey(q.sessionId, serverId)
             client == MapGet(m, clientKey)
             toolMsg == ToolMsg(call.id, ErrorLen, "not connected")
             seen == Append(q.resolved,
                        [id |-> call.id, owned |-> Owned(m, cl, q.sessionId, serverId)])
         IN IF ~call.hasFunction THEN DispatchScanNoAwait([q EXCEPT !.ci = q.ci + 1], m, cl)
            ELSE IF ~call.argsValid THEN [q EXCEPT !.pc = "throw", !.resolved = seen]
            ELSE IF client # NoClient
            THEN DispatchScanNoAwait(
                   [q EXCEPT !.ci = q.ci + 1, !.resolved = seen,
                             !.invoked = Append(q.invoked,
                                 [id |-> call.id, client |-> client,
                                  fnName |-> DecodeFnName(call.name)]),
                             !.sawClosing = q.sawClosing \/ CloseStarted(cl, client)],
                   m, cl)
            ELSE DispatchScanNoAwait(
                   [q EXCEPT !.ci = q.ci + 1, !.resolved = seen,
                             !.convo = Append(q.convo, toolMsg),
                             !.allToolResults = Append(q.allToolResults, toolMsg)],
                   m, cl)

RECURSIVE DispatchScan(_, _, _)
DispatchScan(q, m, cl) ==
    IF q.ci > Len(q.calls) THEN [q EXCEPT !.pc = "endturn"]
    ELSE LET call == q.calls[q.ci]
             serverId == DecodeServerId(call.name)
             clientKey == MakeKey(q.sessionId, serverId)
             client == MapGet(m, clientKey)
             toolMsg == ToolMsg(call.id, ErrorLen, "not connected")
             seen == Append(q.resolved,
                        [id |-> call.id, owned |-> Owned(m, cl, q.sessionId, serverId)])
         IN IF ~call.hasFunction THEN DispatchScan([q EXCEPT !.ci = q.ci + 1], m, cl)
            ELSE IF ~call.argsValid THEN [q EXCEPT !.pc = "throw", !.resolved = seen]
            ELSE IF client # NoClient
            THEN [q EXCEPT !.pc = "callTool", !.client = client, !.key = clientKey,
                           !.resolved = seen,
                           !.invoked = Append(q.invoked,
                               [id |-> call.id, client |-> client,
                                fnName |-> DecodeFnName(call.name)]),
                           !.sawClosing = q.sawClosing \/ CloseStarted(cl, client)]
            ELSE DispatchScan(
                   [q EXCEPT !.ci = q.ci + 1, !.resolved = seen,
                             !.convo = Append(q.convo, toolMsg),
                             !.allToolResults = Append(q.allToolResults, toolMsg)],
                   m, cl)

ChatDispatch(r, q, m, cl) ==
    LET s == DispatchScan(q, m, cl)
    IN IF s.pc = "throw"
       THEN req' = [req EXCEPT ![r] = Respond(s, ErrorEnvelope(500))]
       ELSE IF s.pc = "callTool"
       THEN req' = [req EXCEPT ![r] = s]
       ELSE req' = [req EXCEPT ![r] = LoopHead([s EXCEPT !.turn = s.turn + 1])]

\* what the model may name: a tool it was offered, or a tool of no provider
UnknownTool == <<"x", "_", "t">>
ToolNames(toolsList) ==
    {toolsList[k].name : k \in 1..Len(toolsList)} \cup {UnknownTool}

\* one requested call: well formed, without a function, or with arguments
\* that JSON.parse rejects
GoodCall(n) == [name |-> n, hasFunction |-> TRUE, argsValid |-> TRUE]
NoFunctionCall == [name |-> UnknownTool, hasFunction |-> FALSE, argsValid |-> TRUE]
BadArgsCall == [name |-> UnknownTool, hasFunction |-> TRUE, argsValid |-> FALSE]

\* assistant.tool_calls of a completion: none (a final answer), one call, a
\* call of an unknown tool followed by a call of an offered tool, a call
\* without a function, a call with malformed arguments after a good one
ModelResponses(toolsList) ==
    {<<>>}
        \cup {<<GoodCall(n)>> : n \in ToolNames(toolsList)}
        \cup {<<GoodCall(UnknownTool), GoodCall(toolsList[k].name)>> : k \in 1..Len(toolsList)}
        \cup {<<NoFunctionCall, GoodCall(UnknownTool)>>,
              <<GoodCall(UnknownTool), BadArgsCall>>}

\* the loop without the break after a completion that carries no tool calls
ModelRepliesNoBreak(r, tool_calls) ==
    /\ req[r].kind = "chat" /\ req[r].pc = "model"
    /\ UNCHANGED <<activeMCPConnections, clients, fitIn, fitOut, nsIn, nsOut, estIn, estOut, ACTIVE, chatStore, bee>>
    /\ LET q == req[r]
           calls == [k \in 1..Len(tool_calls) |->
                        [id |-> Len(q.allToolCalls) + k, name |-> tool_calls[k].name,
                         hasFunction |-> tool_calls[k].hasFunction,
                         argsValid |-> tool_calls[k].argsValid]]
       IN IF Len(tool_calls) = 0
          THEN req' = [req EXCEPT ![r] =
                         LoopHead([q EXCEPT !.lastAssistantMsg = FinalMsg,
                                            !.turn = q.turn + 1])]
          ELSE ChatDispatch(r,
                 [q EXCEPT !.convo = Append(q.convo, PlanMsg(calls)),
                           !.allToolCalls = q.allToolCalls \o calls,
                           !.calls = calls, !.ci = 1],
                 activeMCPConnections, clients)

\* await openai.chat.completions.create(...) returns
ModelReplies(r, tool_calls) ==
    /\ req[r].kind = "chat" /\ req[r].pc = "model"
    /\ UNCHANGED <<activeMCPConnections, clients, fitIn, fitOut, nsIn, nsOut, estIn, estOut, ACTIVE, chatStore, bee>>
    /\ LET q == req[r]
           calls == [k \in 1..Len(tool_calls) |->
                        [id |-> Len(q.allToolCalls) + k, name |-> tool_calls[k].name,
                         hasFunction |-> tool_calls[k].hasFunction,
                         argsValid |-> tool_calls[k].argsValid]]
       IN IF Len(tool_calls) = 0
          THEN req' = [req EXCEPT ![r] =
                         Respond([q EXCEPT !.lastAssistantMsg = FinalMsg],
                                 ChatResponse([q EXCEPT !.lastAssistantMsg = FinalMsg]))]
          ELSE ChatDispatch(r,
                 [q EXCEPT !.convo = Append(q.convo, PlanMsg(calls)),
                           !.allToolCalls = q.allToolCalls \o calls,
                           !.calls = calls, !.ci = 1],
                 activeMCPConnections, clients)

\* await openai.chat.completions.create(...) throws
ModelThrows(r) ==
    /\ req[r].kind = "chat" /\ req[r].pc = "model"
    /\ UNCHANGED <<activeMCPConnections, clients, fitIn, fitOut, nsIn, nsOut, estIn, estOut, ACTIVE, chatStore, bee>>
    /\ req' = [req EXCEPT ![r] = Respond(req[r], ErrorEnvelope(500))]

\* await client.callTool(...) returns a content of length len
ToolReturns(r, len) ==
    /\ req[r].kind = "chat" /\ req[r].pc = "callTool"
    /\ clients[req[r].client].st # "closed"
    /\ UNCHANGED <<activeMCPConnections, clients, fitIn, fitOut, nsIn, nsOut, estIn, estOut, ACTIVE, chatStore, bee>>
    /\ LET q == req[r]
           toolMsg == ToolMsg(q.calls[q.ci].id, len, "result")
       IN ChatDispatch(r,
            [q EXCEPT !.ci = q.ci + 1, !.client = NoClient, !.key = <<>>,
                      !.convo = Append(q.convo, toolMsg),
                      !.allToolResults = Append(q.allToolResults, toolMsg)],
            activeMCPConnections, clients)

\* await client.callTool(...) throws: resultContent = { error: e.message }
ToolThrows(r) ==
    /\ req[r].kind = "chat" /\ req[r].pc = "callTool"
    /\ UNCHANGED <<activeMCPConnections, clients, fitIn, fitOut, nsIn, nsOut, estIn, estOut, ACTIVE, chatStore, bee>>
    /\ LET q == req[r]
           toolMsg == ToolMsg(q.calls[q.ci].id, ErrorLen, "error")
       IN ChatDispatch(r,
            [q EXCEPT !.ci = q.ci + 1, !.client = NoClient, !.key = <<>>,
                      !.convo = Append(q.convo, toolMsg),
                      !.allToolResults = Append(q.allToolResults, toolMsg)],
            activeMCPConnections, clients)

---------------------------------------------------------------------------
(* The chat-store backend (backendBee): its state before any request *)

\* the provider ids a client sends: one of the CATALOGUE and one that is not
CATALOGUE == {Filesystem}
BeeIds == CATALOGUE \cup {UnknownServer}
\* ACTIVE[id] is undefined
NotActive == "undefined"
\* mcpId: null
NoMcp == <<>>
\* req.body.chatId is absent
NoChatId == 0
\* a chatId the client made up: no generated uuid equals it
StrangerId == -1
BeeSlots == {"b1", "b2", "b3"}
BeeIdle == [pc |-> "idle", kind |-> "none", id |-> <<>>, chatId |-> NoChatId, status |-> 0]

InitBee ==
    /\ ACTIVE = [id \in BeeIds |-> NotActive]
    /\ chatStore = <<>>
    /\ bee = [b \in BeeSlots |-> BeeIdle]

---------------------------------------------------------------------------
(* The server *)

Init ==
    /\ activeMCPConnections = <<>>
    /\ clients = <<>>
    /\ req = [r \in Requests |-> IdleReq]
    /\ fitIn = <<>> /\ fitOut = <<>>
    /\ nsIn = <<>> /\ nsOut = <<>>
    /\ estIn = <<>> /\ estOut = <<>>
    /\ InitBee

\* the requests the clients send
ConnectSessions == SessionIds \cup {NoSession}
ConnectInputs == {<<Filesystem>>}
DisconnectSessions == {<<"u">>, NoSession}
DisconnectInputs == {<<Filesystem>>, NoList}
ReaderSessions == {<<"u">>, NoSession}

Next ==
    \/ \E r \in WriterSlots :
        \/ \E s \in ConnectSessions, ids \in ConnectInputs : StartConnect(r, s, ids)
        \/ \E s \in DisconnectSessions, ids \in DisconnectInputs : StartDisconnect(r, s, ids)
    \/ \E r \in ReaderSlots :
        \/ \E s \in ReaderSessions : StartTools(r, s)
        \/ \E s \in ReaderSessions, msgs \in ConvoInputs \cup {NotArray},
              useMCP \in BOOLEAN, maxTurns \in 0..MaxTurns :
                StartChat(r, s, msgs, useMCP, maxTurns)
    \/ \E r \in Requests :
        \/ \E ok \in BOOLEAN : ConnectHandshake(r, ok)
        \/ DisconnectClosed(r)
        \/ \E ok \in BOOLEAN : ToolsListed(r, ok)
        \/ \E ok \in BOOLEAN : ChatListed(r, ok)
        \/ \E tc \in ModelResponses(req[r].toolsList) : ModelReplies(r, tc)
        \/ ModelThrows(r)
        \/ \E len \in ResultLens : ToolReturns(r, len)
        \/ ToolThrows(r)

Spec == Init /\ [][Next]_vars

\* An awaited external operation of request r returns or throws
Resume(r) ==
    \/ \E ok \in BOOLEAN : ConnectHandshake(r, ok)
    \/ DisconnectClosed(r)
    \/ \E ok \in BOOLEAN : ToolsListed(r, ok)
    \/ \E ok \in BOOLEAN : ChatListed(r, ok)
    \/ \E tc \in ModelResponses(req[r].toolsList) : ModelReplies(r, tc)
    \/ ModelThrows(r)
    \/ \E len \in ResultLens : ToolReturns(r, len)
    \/ ToolThrows(r)

\* The server when every operation awaited by a tools or chat request
\* eventually settles
FairSpec == Spec /\ \A r \in ReaderSlots : WF_vars(Resume(r))

---------------------------------------------------------------------------
(* The registry alone: three connect and disconnect requests, in arrival   *)
(* order r1, r2, r3, over session ids and server ids that contain '-'.     *)

\* 'u' and 'u-1' are sessions; '1-fs' is the server id that session 'u'
\* must name to build the key of ('u-1', 'fs')
DashedServer == <<"1", "-", "f", "s">>
RegistrySessions == {<<"u">>, <<"u", "-", "1">>}
RegistryConnects ==
    {<<<<"u">>, <<Filesystem>>>>, <<<<"u">>, <<BraveSearch>>>>,
     <<<<"u">>, <<UnknownServer>>>>, <<<<"u">>, <<DashedServer>>>>,
     <<<<"u", "-", "1">>, <<Filesystem>>>>}
RegistryDisconnects == RegistrySessions \X {<<Filesystem>>, NoList}

\* r3 arrives after r2
ArrivedInOrder(r) == r = "r3" => req["r2"].kind # "none"

NextRegistry ==
    \/ \E r \in Requests, c \in RegistryConnects :
          ArrivedInOrder(r) /\ StartConnect(r, c[1], c[2])
    \/ \E r \in Requests, d \in RegistryDisconnects :
          ArrivedInOrder(r) /\ StartDisconnect(r, d[1], d[2])
    \/ \E r \in Requests :
        \/ \E ok \in BOOLEAN : ConnectHandshake(r, ok)
        \/ DisconnectClosed(r)

SpecRegistry == Init /\ [][NextRegistry]_vars

---------------------------------------------------------------------------
(* The registry and the provider processes: connect and disconnect         *)
(* requests of session 'u' while a provider process may exit.              *)

\* The process of a connected provider exits.  connectToMCPServer sets no
\* onclose or onerror handler on the transport or the client, so no code of
\* the server runs: the registry keeps the entry.
ProviderExits(c) ==
    /\ clients[c].st = "live"
    /\ clients' = [clients EXCEPT ![c].st = "exited"]
    /\ UNCHANGED <<activeMCPConnections, req, fitIn, fitOut, nsIn, nsOut, estIn, estOut, ACTIVE, chatStore, bee>>

FailureConnects == {<<Filesystem>>, <<BraveSearch>>}

NextFailure ==
    \/ \E r \in Requests, ids \in FailureConnects :
          ArrivedInOrder(r) /\ StartConnect(r, <<"u">>, ids)
    \/ \E r \in Requests :
          ArrivedInOrder(r) /\ StartDisconnect(r, <<"u">>, <<Filesystem>>)
    \/ \E r \in Requests :
        \/ \E ok \in BOOLEAN : ConnectHandshake(r, ok)
        \/ DisconnectClosed(r)
    \/ \E c \in 1..Len(clients) : ProviderExits(c)

SpecFailure == Init /\ [][NextFailure]_vars

---------------------------------------------------------------------------
(* The chat loop: two connect requests of session 'u' are served, then one *)
(* chat request of that session runs against the registry they left.       *)

\* the server the connect request in slot r names
LoopConnect(r) == IF r = "r1" THEN <<Filesystem>> ELSE <<Github>>

\* names the encoder has not produced: one without a separator, one with the
\* id of a connected provider before a tool that provider does not list
NoSeparatorName == <<"x">>
UnlistedTool == <<"f", "s", "_", "z">>

\* assistant.tool_calls of a completion: none, one call of a name the
\* encoder has not produced, or two calls of an offered tool
LoopResponses(toolsList) ==
    {<<>>, <<GoodCall(NoSeparatorName)>>, <<GoodCall(UnlistedTool)>>}
        \cup {<<GoodCall(toolsList[k].name), GoodCall(toolsList[k].name)>> :
                 k \in 1..Len(toolsList)}

\* the connect requests have been answered
Served == \A w \in WriterSlots : req[w].pc = "responded"

NextLoop ==
    \/ \E r \in WriterSlots : StartConnect(r, <<"u">>, LoopConnect(r))
    \/ \E r \in WriterSlots, ok \in BOOLEAN : ConnectHandshake(r, ok)
    \/ \E r \in ReaderSlots :
        \/ \E msgs \in ConvoInputs, useMCP \in BOOLEAN, maxTurns \in 1..MaxTurns :
              Served /\ StartChat(r, <<"u">>, msgs, useMCP, maxTurns)
        \/ \E ok \in BOOLEAN : ChatListed(r, ok)
        \/ \E tc \in LoopResponses(req[r].toolsList) : ModelReplies(r, tc)
        \/ ModelThrows(r)
        \/ \E len \in ResultLens : ToolReturns(r, len)
        \/ ToolThrows(r)

SpecLoop == Init /\ [][NextLoop]_vars

---------------------------------------------------------------------------
(* The chat loop when an awaited operation may never return.  Every await  *)
(* of the handlers is a bare `await` of the operation's promise: no timer  *)
(* runs beside it, so nothing resumes a handler whose operation is silent. *)

\* client.connect, client.listTools, openai.chat.completions.create or
\* client.callTool awaited by request r never settles
Hangs(r) ==
    /\ req[r].kind \in {"connect", "chat"}
    /\ req[r].pc \in {"handshake", "listTools", "model", "callTool"}
    /\ req' = [req EXCEPT ![r].pc = "hung"]
    /\ UNCHANGED <<activeMCPConnections, clients, fitIn, fitOut, nsIn, nsOut, estIn, estOut, ACTIVE, chatStore, bee>>

\* an operation awaited by request r returns or throws
ResumeLoop(r) ==
    \/ \E ok \in BOOLEAN : ConnectHandshake(r, ok)
    \/ \E ok \in BOOLEAN : ChatListed(r, ok)
    \/ \E tc \in LoopResponses(req[r].toolsList) : ModelReplies(r, tc)
    \/ ModelThrows(r)
    \/ \E len \in ResultLens : ToolReturns(r, len)
    \/ ToolThrows(r)

NextHang ==
    \/ NextLoop
    \/ \E r \in Requests : Hangs(r)

\* every operation that is not silent for ever settles
SpecHang == Init /\ [][NextHang]_vars /\ \A r \in Requests : WF_vars(ResumeLoop(r))

---------------------------------------------------------------------------
(* Connect requests of session 'u' served one after the other: a request   *)
(* arrives when no other is in progress.                                   *)

\* Longest req.body.serverIds
MaxIds == 2

ConnectLists ==
    UNION {[1..n -> {Filesystem, BraveSearch, UnknownServer}] : n \in 1..MaxIds}

\* no request is in progress
Quiet == \A r \in Requests : req[r].pc \in {"idle", "responded"}

NextSerial ==
    \/ \E r \in WriterSlots, ids \in ConnectLists :
          Quiet /\ StartConnect(r, <<"u">>, ids)
    \/ \E r \in WriterSlots, ok \in BOOLEAN : ConnectHandshake(r, ok)

SpecSerial == Init /\ [][NextSerial]_vars

---------------------------------------------------------------------------
(* Two chat requests of session 'u' at a time, after a connect request of  *)
(* that session has been served.                                           *)

ChatSlots == {"r2", "r3"}

NextChats ==
    \/ StartConnect("r1", <<"u">>, <<Filesystem>>)
    \/ \E ok \in BOOLEAN : ConnectHandshake("r1", ok)
    \/ \E r \in ChatSlots :
        \/ /\ req["r1"].pc = "responded"
           /\ StartChat(r, <<"u">>, LightConvo, TRUE, 1)
        \/ \E ok \in BOOLEAN : ChatListed(r, ok)
        \/ \E tc \in LoopResponses(req[r].toolsList) : ModelReplies(r, tc)
        \/ ModelThrows(r)
        \/ \E len \in ResultLens : ToolReturns(r, len)
        \/ ToolThrows(r)

SpecChats == Init /\ [][NextChats]_vars

---------------------------------------------------------------------------
(* pruneConversation as a function: applied once to an input conversation *)

\* a user message whose content is an array of content parts, of which
\* JSON.stringify has 400000 characters
UserParts == Msg("user", "parts", 400000, "text")
\* an assistant message that only records tool calls
AssistantNull == Msg("assistant", "null", 0, "plan")

\* a system prompt longer than the per-message ceiling
SystemPage == Msg("system", "string", 30000, "text")

FitMessages == {SystemText, SystemPage, UserText, UserPage, UserParts, AssistantNull}

\* Longest tail of an input conversation
MaxFitLen == 3

\* the input conversations: up to MaxFitLen messages, alone or after the
\* fourteen pages of HeavyConvo
\* the conversation at the head of the turn after one in which the model
\* requested n tool calls and every result had 30000 characters
ToolTurn(n) ==
    <<UserText, PlanMsg([k \in 1..n |-> [id |-> k]])>>
        \o [k \in 1..n |-> ToolMsg(k, 30000, "result")]

FitInputs ==
    LET tails == UNION {[1..n -> FitMessages] : n \in 0..MaxFitLen}
    IN tails \cup {HeavyConvo \o t : t \in tails}
             \cup {ToolTurn(n) : n \in {2, 15}}
             \cup {<<SystemText>> \o ToolTurn(n) : n \in {2, 15}}

\* fitOut before pruneConversation has returned
NotFitted == <<NullMsg>>

InitFit ==
    /\ activeMCPConnections = <<>>
    /\ clients = <<>>
    /\ req = [r \in Requests |-> IdleReq]
    /\ fitIn \in FitInputs /\ fitOut = NotFitted
    /\ nsIn = <<>> /\ nsOut = <<>>
    /\ estIn = <<>> /\ estOut = <<>>
    /\ InitBee

Fit ==
    /\ fitOut = NotFitted
    /\ fitOut' = pruneConversation(fitIn)
    /\ UNCHANGED <<activeMCPConnections, clients, req, fitIn, nsIn, nsOut, estIn, estOut, ACTIVE, chatStore, bee>>

SpecFit == InitFit /\ [][Fit]_vars

---------------------------------------------------------------------------
(* Tool namespacing as a function: a name is built as the tools list       *)
(* builds it and resolved as the dispatch resolves it                      *)

\* Longest server id and tool name
MaxNameLen == 3
NameChars == {"a", Underscore}
Names == UNION {[1..n -> NameChars] : n \in 1..MaxNameLen}

NotResolved == <<>>

InitNames ==
    /\ activeMCPConnections = <<>>
    /\ clients = <<>>
    /\ req = [r \in Requests |-> IdleReq]
    /\ fitIn = <<>> /\ fitOut = <<>>
    /\ nsIn \in Names \X Names /\ nsOut = NotResolved
    /\ estIn = <<>> /\ estOut = <<>>
    /\ InitBee

Resolve ==
    /\ nsOut = NotResolved
    /\ nsOut' = <<DecodeServerId(EncodeToolName(nsIn[1], nsIn[2])),
                  DecodeFnName(EncodeToolName(nsIn[1], nsIn[2]))>>
    /\ UNCHANGED <<activeMCPConnections, clients, req, fitIn, fitOut, nsIn, estIn, estOut, ACTIVE, chatStore, bee>>

SpecNames == InitNames /\ [][Resolve]_vars

---------------------------------------------------------------------------
(* msgTokens as a function: applied to two messages                        *)

\* content lengths around the multiples of BYTES_PER_TOKEN, the clipping
\* threshold and the cap of strTokens
CostLens == {0, 1, 2, 3, 4, 23999, 24000, 24001, 999999, 1000000, 1000001, 2000000}

\* messages with string content, with null content, and with content parts
CostMessages ==
    {Msg("user", "string", n, "text") : n \in CostLens}
        \cup {AssistantNull}
        \cup {Msg("user", "parts", n, "text") : n \in {3, 400000}}

NotEstimated == <<>>

InitCost ==
    /\ activeMCPConnections = <<>>
    /\ clients = <<>>
    /\ req = [r \in Requests |-> IdleReq]
    /\ fitIn = <<>> /\ fitOut = <<>>
    /\ nsIn = <<>> /\ nsOut = <<>>
    /\ estIn \in CostMessages \X CostMessages /\ estOut = NotEstimated
    /\ InitBee

Estimate ==
    /\ estOut = NotEstimated
    /\ estOut' = <<msgTokens(estIn[1]), msgTokens(estIn[2])>>
    /\ UNCHANGED <<activeMCPConnections, clients, req, fitIn, fitOut, nsIn, nsOut, estIn, ACTIVE, chatStore, bee>>

SpecCost == InitCost /\ [][Estimate]_vars

---------------------------------------------------------------------------
(* Properties *)

ChatRequests == {r \in Requests : req[r].kind = "chat"}

\* the tool messages of a conversation that answer the call id
ResultsFor(convo, id) ==
    {j \in 1..Len(convo) : convo[j].role = "tool" /\ convo[j].tool_call_id = id}

\* C1: whenever the model service is being asked, every tool call recorded
\* in an assistant message of the conversation sent has exactly one tool
\* message with its id in that conversation.
C1_NoDanglingToolCall ==
    \A r \in ChatRequests :
        req[r].pc = "model" =>
            \A i \in 1..Len(req[r].convo) :
                \A k \in 1..Len(req[r].convo[i].tool_calls) :
                    Cardinality(ResultsFor(req[r].convo, req[r].convo[i].tool_calls[k])) = 1

\* C2: no two live provider processes serve the same (session, provider)
\* key, whatever the interleaving of the connect requests.
C2_OneProcessPerKey ==
    \A c1, c2 \in 1..Len(clients) :
        (/\ c1 # c2
         /\ clients[c1].sess = clients[c2].sess
         /\ clients[c1].prov = clients[c2].prov
         /\ clients[c1].st = "live")
            => clients[c2].st # "live"

C4_BudgetInvariant ==
    fitOut # NotFitted =>
        \/ totalTokens(fitOut) <= MAX_CONTEXT_TOKENS
        \/ \A i \in 1..Len(fitOut) : fitOut[i].role = "system"

\* C5: resolving the name built for (serverId, toolName) yields
\* (serverId, toolName).
C5_RoundTrip == nsOut # NotResolved => nsOut = nsIn

\* C6: a tools or chat request of a session lists, offers and invokes only
\* clients that a connect request of the same session created, and its tool
\* listing does not fail on the key of another session.
C6_SessionsIsolated ==
    \A r \in Requests :
        /\ \A k \in 1..Len(req[r].toolsList) :
              clients[req[r].toolsList[k].client].sess = req[r].sessionId
        /\ \A k \in 1..Len(req[r].invoked) :
              clients[req[r].invoked[k].client].sess = req[r].sessionId
        /\ req[r].pc = "listTools" => clients[req[r].client].sess = req[r].sessionId
        /\ ~(/\ req[r].kind = "tools" /\ req[r].pc = "responded"
             /\ req[r].resp.status = 500 /\ req[r].client = NoClient)

\* C7: the toolResults of a chat response hold one entry per entry of its
\* toolCalls, with the same ids in the same order.
C7_OneResultPerCall ==
    \A r \in ChatRequests :
        (req[r].pc = "responded" /\ req[r].resp.status = 200) =>
            /\ Len(req[r].resp.toolResults) = Len(req[r].resp.toolCalls)
            /\ \A k \in 1..Len(req[r].resp.toolCalls) :
                  req[r].resp.toolResults[k].tool_call_id = req[r].resp.toolCalls[k].id

\* the current turn of q has a call whose result is an error
TurnHasFailure(q) ==
    \E k \in 1..Len(q.calls) : \E j \in 1..Len(q.allToolResults) :
        /\ q.allToolResults[j].tool_call_id = q.calls[k].id
        /\ q.allToolResults[j].payload \in {"error", "not connected"}

\* C8: in a turn in which a call failed or named a provider that is not
\* connected, every call the loop has passed has its own result and the
\* request is not aborted inside the dispatch.
C8_FailureContained ==
    \A r \in ChatRequests :
        TurnHasFailure(req[r]) =>
            /\ \A k \in 1..Len(req[r].calls) :
                  k < req[r].ci =>
                     \E j \in 1..Len(req[r].allToolResults) :
                        req[r].allToolResults[j].tool_call_id = req[r].calls[k].id
            /\ ~(/\ req[r].pc = "responded" /\ req[r].resp.status = 500
                 /\ req[r].ci \in 1..Len(req[r].calls))

\* C9: a call that names a provider to which this session holds no
\* connection gets a "not connected" result with its id, and no callTool.
C9_NotConnectedIsData ==
    \A r \in ChatRequests :
        \A e \in 1..Len(req[r].resolved) :
            ~req[r].resolved[e].owned =>
                /\ \E j \in 1..Len(req[r].allToolResults) :
                      /\ req[r].allToolResults[j].tool_call_id = req[r].resolved[e].id
                      /\ req[r].allToolResults[j].payload = "not connected"
                /\ \A v \in 1..Len(req[r].invoked) :
                      req[r].invoked[v].id # req[r].resolved[e].id

\* C10: no request is answered 'already connected' for, lists the tools of,
\* or invokes a tool on a client whose close() has been called.
C10_NoUseAfterClose == \A r \in Requests : ~req[r].sawClosing

\* the registry has an entry that holds client c
InRegistry(c) ==
    \E i \in 1..Len(activeMCPConnections) :
        activeMCPConnections[i].key # <<>> /\ activeMCPConnections[i].client = c

\* C11: when a disconnect request without serverIds has responded, every
\* client that the registry held for its session when it arrived is closed
\* and no entry holds it.
C11_DisconnectAllClears ==
    \A r \in Requests :
        (req[r].kind = "disconnect" /\ req[r].pc = "responded") =>
            \A c \in req[r].held : clients[c].st = "closed" /\ ~InRegistry(c)

\* the results that request r appends in a step
NewResults(r) == (Len(req[r].results) + 1)..Len(req'[r].results)

\* C12: a connect step answers 'already connected' for a key whose entry it
\* leaves as it was, holding a client that existed before the step, and no
\* step spawns a client for a key that has an entry.
C12_ConnectIdempotent ==
    [][/\ \A r \in Requests :
             req'[r].kind = "connect" =>
                \A k \in NewResults(r) :
                    req'[r].results[k].status = "already connected" =>
                        LET key == MakeKey(req'[r].sessionId, req'[r].results[k].id)
                        IN /\ MapHas(activeMCPConnections', key)
                           /\ MapGet(activeMCPConnections', key) \in 1..Len(clients)
                           /\ MapHas(activeMCPConnections, key) =>
                                 MapGet(activeMCPConnections', key)
                                    = MapGet(activeMCPConnections, key)
       /\ \A c \in (Len(clients) + 1)..Len(clients') :
             ~MapHas(activeMCPConnections', MakeKey(clients'[c].sess, clients'[c].prov))
      ]_vars

\* a connect request was answered 'already connected' for a pair that one
\* client serves
C12_Witness ==
    \E r \in Requests :
        /\ req[r].kind = "connect" /\ req[r].pc = "responded"
        /\ req[r].resp.status = 200
        /\ req[r].results # <<>>
        /\ req[r].results[1].status = "already connected"
        /\ Cardinality({c \in 1..Len(clients) :
                           /\ clients[c].sess = req[r].sessionId
                           /\ clients[c].prov = req[r].results[1].id}) = 1

\* request r appends a result with this status in the step
Answers(r, status) == \E k \in NewResults(r) : req'[r].results[k].status = status

\* C13: a connect step that reports 'failed' and connects nothing leaves
\* the registry as it was; no entry ever holds a client whose handshake has
\* not succeeded; a request that is over has one result per server id.
C13_FailedConnectLeavesNothing ==
    /\ [][\A r \in Requests :
            (/\ req'[r].kind = "connect"
             /\ Answers(r, "failed") /\ ~Answers(r, "connected"))
                => activeMCPConnections' = activeMCPConnections]_vars
    /\ [](\A i \in 1..Len(activeMCPConnections) :
            activeMCPConnections[i].key # <<>> =>
                clients[activeMCPConnections[i].client].st \in {"live", "closing"})
    /\ [](\A r \in Requests :
            (req[r].kind = "connect" /\ req[r].pc = "responded" /\ req[r].resp.status = 200)
                => /\ Len(req[r].resp.connectedServers) = Len(req[r].ids)
                   /\ \A k \in 1..Len(req[r].ids) :
                         req[r].resp.connectedServers[k].id = req[r].ids[k])

\* one connect of an unknown server and one whose handshake threw were both
\* answered 'failed', and the registry is empty
C13_Witness ==
    /\ MapSize(activeMCPConnections) = 0
    /\ \E r1, r2 \in Requests :
        /\ req[r1].kind = "connect" /\ req[r1].pc = "responded"
        /\ req[r1].ids = <<UnknownServer>> /\ req[r1].results[1].status = "failed"
        /\ req[r2].kind = "connect" /\ req[r2].pc = "responded"
        /\ req[r2].ids = <<Filesystem>> /\ req[r2].results[1].status = "failed"
        /\ \E c \in 1..Len(clients) : clients[c].st = "closed"

\* request r starts in the step as a connect for a server of the catalogue
\* whose key has no entry
ConnectsAbsentKey(r) ==
    /\ req[r].kind = "none" /\ req'[r].kind = "connect"
    /\ req'[r].sessionId # NoSession
    /\ req'[r].ids[1] \in CURATED_MCP_SERVERS
    /\ ~MapHas(activeMCPConnections, MakeKey(req'[r].sessionId, req'[r].ids[1]))

DisconnectsAbsentKeys(r) ==
    /\ req[r].kind = "none" /\ req'[r].kind = "disconnect"
    /\ req'[r].sessionId # NoSession
    /\ \A k \in 1..Len(req'[r].ids) :
          ~MapHas(activeMCPConnections, MakeKey(req'[r].sessionId, req'[r].ids[k]))

\* C15: a disconnect request whose keys have no entry changes no entry and
\* no client, and is answered 200 with an empty list of disconnected ids.
C15_AbsentDisconnectIsNoOp ==
    [][\A r \in Requests :
          DisconnectsAbsentKeys(r)
             => /\ activeMCPConnections' = activeMCPConnections
                /\ clients' = clients
                /\ req'[r].pc = "responded"
                /\ req'[r].resp = [status |-> 200, disconnected |-> <<>>]
      ]_vars

\* a disconnect of session 'u' arrived when the registry held the entry of
\* ('u-1', 'fs'), looked up the key 'u-1' that has no entry, and was
\* answered with nothing disconnected; the entry and its client are as before
C15_Witness ==
    \E r \in Requests :
        /\ req[r].kind = "disconnect" /\ req[r].pc = "responded"
        /\ req[r].sessionId = <<"u">> /\ req[r].ids = << <<"1">> >>
        /\ req[r].resp = [status |-> 200, disconnected |-> <<>>]
        /\ MapSize(activeMCPConnections) = 1
        /\ Len(clients) = 1 /\ clients[1].st = "live"

\* C16: a connect request is answered 'already connected' for a server id
\* only if a connect of the same session to the same server id succeeded.
C16_KeyUnambiguous ==
    \A r \in Requests :
        req[r].kind = "connect" =>
            \A k \in 1..Len(req[r].results) :
                req[r].results[k].status = "already connected" =>
                    \E c \in 1..Len(clients) :
                        /\ clients[c].sess = req[r].sessionId
                        /\ clients[c].prov = req[r].results[k].id
                        /\ clients[c].st # "connecting"

\* C17: after pruneConversation no message of the result is estimated above
\* the per-message ceiling, the appended marker aside.
C17_ClippedToCeiling ==
    fitOut # NotFitted =>
        \A i \in 1..Len(fitOut) :
            msgTokens(fitOut[i])
                <= MAX_SINGLE_MSG_TOKENS + CeilDiv(MarkerLen, BYTES_PER_TOKEN)

\* out is a subsequence of the clipped messages of inp, in their order
RECURSIVE IsClippedSubseq(_, _)
IsClippedSubseq(out, inp) ==
    IF out = <<>> THEN TRUE
    ELSE IF inp = <<>> THEN FALSE
    ELSE IF clipMessage(Head(inp)) = Head(out)
         THEN IsClippedSubseq(Tail(out), Tail(inp))
         ELSE IsClippedSubseq(out, Tail(inp))

IsSystem(m) == m.role = "system"

\* C18: the result of pruneConversation is a subsequence of the clipped
\* input in the input's order, and holds every system message of the input.
C18_OrderAndPinsKept ==
    fitOut # NotFitted =>
        /\ IsClippedSubseq(fitOut, fitIn)
        /\ SelectSeq(fitOut, IsSystem) = ClipAll(SelectSeq(fitIn, IsSystem))

\* messages were dropped from a conversation that holds system messages
\* before and after user messages; all of them are kept
C18_Witness ==
    /\ fitOut # NotFitted
    /\ Len(fitOut) < Len(fitIn)
    /\ Len(SelectSeq(fitOut, IsSystem)) >= 2
    /\ IsSystem(fitIn[Len(fitIn) - 1])
    /\ \E i \in 1..Len(fitOut) : ~IsSystem(fitOut[i])

\* a chat request answered at the turn limit, after at least one plan and
\* dispatch cycle, without a final answer
Exhausted(q) ==
    /\ q.kind = "chat" /\ q.pc = "responded" /\ q.resp.status = 200
    /\ q.turn = q.maxTurns /\ q.lastAssistantMsg # FinalMsg
    /\ q.modelCalls >= 1 /\ q.allToolResults # <<>>

\* C19: a chat request that reaches the turn limit without a final answer is
\* answered with the trace of all its calls and results and with a flag
\* that says it was aborted.
C19_AbortedIsFlagged ==
    \A r \in ChatRequests :
        Exhausted(req[r]) =>
            /\ req[r].resp.toolCalls = req[r].allToolCalls
            /\ req[r].resp.toolResults = req[r].allToolResults
            /\ "aborted" \in DOMAIN req[r].resp

\* C20: a chat request with a session id and a list of messages is answered
\* with a message and a trace, never with an error envelope.
C20_AlwaysStructured ==
    \A r \in ChatRequests :
        (/\ req[r].pc = "responded"
         /\ req[r].sessionId # NoSession /\ req[r].convo # NotArray)
            => /\ req[r].resp.status = 200
               /\ {"message", "toolCalls", "toolResults"} \subseteq DOMAIN req[r].resp

\* the chat request in slot r lacks a session id or its messages are no list
Invalid(q) == q.kind = "chat" /\ (q.sessionId = NoSession \/ q.convo = NotArray)

\* C21: a chat request without a session id, or whose messages are not a
\* list, is answered 400 in the step in which it arrives: the model has not
\* been invoked, no provider has been listed or called, and the registry and
\* the clients are as they were
C21_InvalidChatRejected ==
    [][\A r \in Requests :
         (req[r].kind = "none" /\ Invalid(req'[r]))
            => /\ req'[r].pc = "responded"
               /\ req'[r].resp = ErrorEnvelope(400)
               /\ req'[r].modelCalls = 0
               /\ req'[r].invoked = <<>>
               /\ req'[r].toolsList = <<>>
               /\ req'[r].client = NoClient
               /\ activeMCPConnections' = activeMCPConnections
               /\ clients' = clients]_vars

\* a chat request with a session id and messages that are no list was
\* rejected while the registry held a live connection of that session
C21_Witness ==
    \E r \in Requests :
        /\ Invalid(req[r]) /\ req[r].sessionId = <<"u">>
        /\ req[r].resp = ErrorEnvelope(400)
        /\ \E i \in 1..Len(activeMCPConnections) :
              /\ activeMCPConnections[i].key = MakeKey(<<"u">>, Filesystem)
              /\ clients[activeMCPConnections[i].client].st = "live"

\* C22: when the model is invoked in a turn after the first, every entry of
\* the tool catalog passed to it names a provider to which the registry holds
\* a connection of the session at that moment
C22_CatalogIsCurrent ==
    [][\A r \in Requests :
         (/\ req[r].kind = "chat"
          /\ req'[r].pc = "model"
          /\ req'[r].modelCalls = req[r].modelCalls + 1
          /\ req'[r].turn >= 1)
            => \A k \in 1..Len(req'[r].toolsList) :
                  MapHas(activeMCPConnections',
                         MakeKey(req'[r].sessionId, req'[r].toolsList[k].serverId))]_vars

\* C23: the tool calls of a chat request are invoked one at a time and in
\* request order: every invocation but the one being awaited has returned
\* and left its result, so a later call on a connection starts after every
\* earlier call on it has returned; the results stand in request order
C23_CallsSerialized ==
    \A r \in ChatRequests :
        /\ \A v \in 1..Len(req[r].invoked) :
              (v < Len(req[r].invoked) \/ req[r].pc # "callTool")
                 => \E j \in 1..Len(req[r].allToolResults) :
                       req[r].allToolResults[j].tool_call_id = req[r].invoked[v].id
        /\ \A v, w \in 1..Len(req[r].invoked) :
              v < w => req[r].invoked[v].id < req[r].invoked[w].id
        /\ \A i, j \in 1..Len(req[r].allToolResults) :
              i < j => req[r].allToolResults[i].tool_call_id
                          < req[r].allToolResults[j].tool_call_id

\* the second of two calls of one turn on the same connection is awaited and
\* the result of the first is in the trace
C23_Witness ==
    \E r \in ChatRequests :
        /\ req[r].pc = "callTool" /\ req[r].ci = 2
        /\ Len(req[r].invoked) >= 2
        /\ LET n == Len(req[r].invoked)
           IN /\ req[r].invoked[n].client = req[r].invoked[n - 1].client
              /\ req[r].invoked[n].id = req[r].calls[2].id
              /\ req[r].invoked[n - 1].id = req[r].calls[1].id
              /\ \E j \in 1..Len(req[r].allToolResults) :
                    req[r].allToolResults[j].tool_call_id = req[r].calls[1].id

\* C24: a chat request that returns a model message returns the first model
\* response without tool calls (every response before it carried tool calls
\* and completed a turn), it returns it in the step in which that response
\* arrives, and a request that has responded does nothing more
C24_DoneIsFinal ==
    /\ [](\A r \in ChatRequests :
            (req[r].pc = "responded" /\ req[r].resp.status = 200
               /\ req[r].resp.message = FinalMsg)
                 => /\ req[r].modelCalls = req[r].turn + 1
                    /\ req[r].lastAssistantMsg = FinalMsg)
    /\ [][\A r \in Requests :
            /\ req[r].pc = "responded" => req'[r] = req[r]
            /\ (req[r].kind = "chat" /\ req'[r].lastAssistantMsg # req[r].lastAssistantMsg)
                  => /\ req[r].pc = "model" /\ req'[r].pc = "responded"
                     /\ req'[r].resp.message = FinalMsg
                     /\ req'[r].modelCalls = req[r].modelCalls
                     /\ req'[r].invoked = req[r].invoked]_vars

\* a chat request has returned the model's answer after a turn in which a
\* provider tool was invoked
C24_Witness ==
    \E r \in ChatRequests :
        /\ req[r].pc = "responded" /\ req[r].resp.status = 200
        /\ req[r].resp.message = FinalMsg
        /\ req[r].turn = 1 /\ req[r].modelCalls = 2
        /\ req[r].invoked # <<>>

\* C25: the trace a chat request returns holds every tool call of every turn
\* in the order the model issued them and, for every call that was
\* dispatched, its result in that order, each result with the content the
\* dispatch gave it: clipping and pruning of the conversation leave the
\* trace alone
C25_TraceIsFull ==
    \A r \in ChatRequests :
        (req[r].pc = "responded" /\ req[r].resp.status = 200)
           => LET calls == req[r].resp.toolCalls
                  results == req[r].resp.toolResults
              IN /\ \A k \in 1..Len(calls) : calls[k].id = k
                 /\ Len(results) = Len(req[r].resolved)
                 /\ \A k \in 1..Len(results) :
                       /\ results[k].tool_call_id = req[r].resolved[k].id
                       /\ results[k].marks = 0
                       /\ results[k].len \in ResultLens \cup {ErrorLen}
                 /\ \A v \in 1..Len(req[r].invoked) :
                       \E k \in 1..Len(results) :
                           results[k].tool_call_id = req[r].invoked[v].id

\* a returned trace holds a result of 30000 characters whose copy in the
\* conversation was clipped for the next turn
C25_Witness ==
    \E r \in ChatRequests :
        /\ req[r].pc = "responded" /\ req[r].resp.status = 200
        /\ \E k \in 1..Len(req[r].resp.toolResults), j \in 1..Len(req[r].convo) :
              /\ req[r].resp.toolResults[k].len = 30000
              /\ req[r].convo[j].role = "tool"
              /\ req[r].convo[j].tool_call_id = req[r].resp.toolResults[k].tool_call_id
              /\ req[r].convo[j].marks = 1

\* C26: a chat request that offered the model a tool catalog invokes a
\* provider only for a call whose name is a name of that catalog, that is, a
\* name the encoder produced; a call with any other name never reaches a
\* provider
C26_OnlyEncodedNamesInvoked ==
    \A r \in ChatRequests :
        \A v \in 1..Len(req[r].invoked) :
            req[r].toolsList # <<>> =>
            \E k \in 1..Len(req[r].toolsList) :
                req[r].toolsList[k].name = req[r].allToolCalls[req[r].invoked[v].id].name

\* C27: the tool catalog a chat request offers to the model holds no
\* namespaced name twice
C27_CatalogNamesUnique ==
    \A r \in ChatRequests :
        req[r].pc = "model" =>
            \A j, k \in 1..Len(req[r].toolsList) :
                j # k => req[r].toolsList[j].name # req[r].toolsList[k].name

\* C28: no connect request is answered 'already connected' for a key whose
\* provider process has exited: the entry of a dead provider has left the
\* registry, so the connect spawns a new process
C28_DeadConnectionDestroyed ==
    [][\A r \in Requests :
         req'[r].kind = "connect" =>
            \A k \in NewResults(r) :
                req'[r].results[k].status = "already connected" =>
                    LET key == MakeKey(req'[r].sessionId, req'[r].results[k].id)
                    IN MapHas(activeMCPConnections, key) =>
                          clients[MapGet(activeMCPConnections, key)].st # "exited"]_vars

\* C29: every connect and chat request is answered in the end, also when an
\* operation it awaits never returns
C29_OperationsTimeOut ==
    \A r \in Requests :
        (req[r].kind \in {"connect", "chat"}) ~> (req[r].pc = "responded")

\* C30: of two messages with string content the one with the longer content
\* never costs less, and a message with null content costs NullContentTokens
C30_CostMonotonic ==
    estOut # NotEstimated =>
        /\ (estIn[1].kind = "string" /\ estIn[2].kind = "string"
              /\ estIn[1].len <= estIn[2].len) => estOut[1] <= estOut[2]
        /\ \A k \in 1..2 : estIn[k].kind = "null" => estOut[k] = NullContentTokens

\* the costs of a string below the cap of strTokens and of a longer one
\* above it have been estimated
C30_Witness ==
    /\ estOut # NotEstimated
    /\ estIn[1].kind = "string" /\ estIn[2].kind = "string"
    /\ estIn[1].len < StrLenCap /\ estIn[2].len > StrLenCap
    /\ estOut[1] < estOut[2]

\* the positions of the messages of s that are not system messages
NonSystemIdx(s) == {i \in 1..Len(s) : s[i].role # "system"}

\* s without its k oldest non-system messages
RECURSIVE WithoutOldest(_, _)
WithoutOldest(s, k) ==
    IF k = 0 \/ s = <<>> THEN s
    ELSE IF Head(s).role = "system" THEN <<Head(s)>> \o WithoutOldest(Tail(s), k)
    ELSE WithoutOldest(Tail(s), k - 1)

\* pruning stops at s: within the budget, a single message, or nothing to remove
PruningStops(s) ==
    \/ totalTokens(s) <= MAX_CONTEXT_TOKENS
    \/ Len(s) <= 1
    \/ NonSystemIdx(s) = {}

\* C31: the result of pruneConversation is the clipped input without its k
\* oldest non-system messages, for the smallest k at which the total is
\* within the budget, a single message is left or no non-system message is
\* left; k is 0 when the clipped input is within the budget
C31_OldestFirstAsNeeded ==
    fitOut # NotFitted =>
        LET c == ClipAll(fitIn)
        IN \E k \in 0..Cardinality(NonSystemIdx(c)) :
              /\ fitOut = WithoutOldest(c, k)
              /\ PruningStops(WithoutOldest(c, k))
              /\ \A j \in 0..(k - 1) : ~PruningStops(WithoutOldest(c, j))

\* two messages were removed and the rest, more than one message with a
\* non-system message among them, is within the budget
C31_Witness ==
    /\ fitOut # NotFitted
    /\ Len(fitIn) - Len(fitOut) >= 2
    /\ Len(fitOut) > 1
    /\ totalTokens(fitOut) <= MAX_CONTEXT_TOKENS
    /\ NonSystemIdx(fitOut) # {}

\* every tool message of s comes after an assistant message of s whose
\* tool calls hold its tool_call_id
Paired(s) ==
    \A i \in 1..Len(s) :
        s[i].role = "tool" =>
            \E j \in 1..(i - 1) :
                /\ s[j].role = "assistant"
                /\ \E c \in 1..Len(s[j].tool_calls) : s[j].tool_calls[c] = s[i].tool_call_id

\* C32: pruneConversation never orphans a tool result: when every tool
\* message of the input follows the assistant message that requested it, so
\* does every tool message of the conversation sent to the model
C32_NoOrphanToolResult ==
    (fitOut # NotFitted /\ Paired(fitIn)) => Paired(fitOut)

\* C33: for a non-empty input the last message of the result of
\* pruneConversation is the last message of the input, clipped if oversize
C33_NewestKept ==
    (fitOut # NotFitted /\ fitIn # <<>>) =>
        /\ fitOut # <<>>
        /\ fitOut[Len(fitOut)] = clipMessage(fitIn[Len(fitIn)])

\* C34: pruneConversation applied to its own result returns that result: the
\* same messages with the same contents, no message clipped further and no
\* second marker
C34_FitIdempotent ==
    fitOut # NotFitted => pruneConversation(fitOut) = fitOut

\* a result from which messages were removed and that holds a clipped
\* message, still estimated above the per-message ceiling, is left as it is
C34_Witness ==
    /\ fitOut # NotFitted
    /\ Len(fitOut) < Len(fitIn)
    /\ \E i \in 1..Len(fitOut) :
          /\ fitOut[i].marks = 1
          /\ msgTokens(fitOut[i]) > MAX_SINGLE_MSG_TOKENS
    /\ pruneConversation(fitOut) = fitOut

\* C35: two chat requests never have a callTool in flight on the same
\* provider connection at the same time
C35_OneCallPerConnection ==
    \A r, s \in ChatRequests :
        (r # s /\ req[r].pc = "callTool" /\ req[s].pc = "callTool")
            => req[r].client # req[s].client

\* C36: whenever no connect or disconnect request is in progress, every
\* client whose handshake succeeded is held by an entry of the registry or
\* has been closed
C36_NoLeakedProcess ==
    (\A r \in Requests :
        req[r].kind \in {"connect", "disconnect"} => req[r].pc = "responded")
      => \A c \in 1..Len(clients) :
            clients[c].st = "live" => InRegistry(c)

\* the connect requests that have been answered with their results
Connected == {r \in Requests : req[r].kind = "connect" /\ req[r].pc = "responded"
                                  /\ req[r].resp.status = 200}

\* request r has one status per requested id, in request order
OnePerId(r) ==
    /\ Len(req[r].results) = Len(req[r].ids)
    /\ \A k \in 1..Len(req[r].ids) : req[r].results[k].id = req[r].ids[k]

\* the keys of the registry are the keys of the ids answered 'connected'
RegistryIsSumOfConnected ==
    Quiet =>
        {activeMCPConnections[i].key : i \in {j \in 1..Len(activeMCPConnections) :
                                                 activeMCPConnections[j].key # <<>>}}
          = {MakeKey(req[r].sessionId, req[r].results[k].id) :
                <<r, k>> \in {p \in Connected \X (1..MaxIds) :
                                 /\ p[2] <= Len(req[p[1]].results)
                                 /\ req[p[1]].results[p[2]].status = "connected"}}

\* C37 as claimed: one status per id in request order, every repeated id
\* answered 'already connected' the second time, and the registry is what it
\* was plus the ids answered 'connected'
C37_OneStatusPerId ==
    /\ \A r \in Connected :
          /\ OnePerId(r)
          /\ \A j, k \in 1..Len(req[r].results) :
                (j < k /\ req[r].ids[j] = req[r].ids[k])
                    => req[r].results[k].status = "already connected"
    /\ RegistryIsSumOfConnected

\* C37 amended: as claimed, except that a repeated id is answered 'already
\* connected' the second time when its first occurrence was answered
\* 'connected' or 'already connected'
C37_OneStatusPerIdAmended ==
    /\ \A r \in Connected :
          /\ OnePerId(r)
          /\ \A j, k \in 1..Len(req[r].results) :
                (/\ j < k /\ req[r].ids[j] = req[r].ids[k]
                 /\ req[r].results[j].status \in {"connected", "already connected"})
                    => req[r].results[k].status = "already connected"
    /\ RegistryIsSumOfConnected

\* after a request connected 'brave-search', a request for an unknown id and
\* 'filesystem' was answered 'failed' and 'connected', and the registry
\* holds both connections
C37_Witness ==
    /\ Quiet
    /\ req["r2"].kind = "connect" /\ req["r2"].pc = "responded"
    /\ req["r2"].ids = <<UnknownServer, Filesystem>>
    /\ req["r2"].results[1].status = "failed"
    /\ req["r2"].results[2].status = "connected"
    /\ MapHas(activeMCPConnections, MakeKey(<<"u">>, BraveSearch))
    /\ MapHas(activeMCPConnections, MakeKey(<<"u">>, Filesystem))
    /\ MapSize(activeMCPConnections) = 2

---------------------------------------------------------------------------
(* The chat-store backend (backendBee): chatStore.ts, the ACTIVE table of  *)
(* mcpService.ts and the handlers /connect, /disconnect, /chat and         *)
(* /servers/recommend.  A generated chat id is the chat's position in the  *)
(* store: chats are never removed, so it is fresh like a uuid.  A stored   *)
(* message is its role and the request slot that pushed it.                *)

\* the position of the chat with this id, 0 when there is none
getChat(store, id) ==
    IF \E k \in 1..Len(store) : store[k].id = id
    THEN CHOOSE k \in 1..Len(store) :
            store[k].id = id /\ \A j \in 1..(k - 1) : store[j].id # id
    ELSE 0

createChat(store, mcpId) ==
    Append(store, [id |-> Len(store) + 1, title |-> Len(store) + 1,
                   mcpId |-> mcpId, history |-> <<>>])

addMessageToChat(store, chatId, message) ==
    LET k == getChat(store, chatId)
    IN IF k # 0 THEN [store EXCEPT ![k].history = Append(@, message)] ELSE store

\* the store afterwards and the id of the chat returned
getOrCreateChat(store, chatId, mcpId) ==
    LET k == getChat(store, chatId)
    IN IF chatId # NoChatId /\ k # 0
       THEN [store |-> IF mcpId # NoMcp THEN [store EXCEPT ![k].mcpId = mcpId] ELSE store,
             id |-> chatId]
       ELSE [store |-> createChat(store, mcpId), id |-> Len(store) + 1]

\* a handler stores the exchange: the user message, then the assistant's
StoreExchange(store, chatId, mcpId, b) ==
    IF chatId = NoChatId THEN store
    ELSE LET g == getOrCreateChat(store, chatId, mcpId)
             withUser == addMessageToChat(g.store, g.id, [role |-> "user", by |-> b])
         IN addMessageToChat(withUser, g.id, [role |-> "assistant", by |-> b])

\* /connect after connectToServer has returned
AfterConnect(store, chatId, id) ==
    IF chatId = NoChatId THEN store ELSE getOrCreateChat(store, chatId, id).store

\* /disconnect after disconnectFromServer has returned
AfterDisconnect(store, chatId) ==
    LET k == getChat(store, chatId)
    IN IF chatId # NoChatId /\ k # 0 THEN [store EXCEPT ![k].mcpId = NoMcp] ELSE store

ConnectRequest(b, id, chatId) ==
    /\ bee[b].pc = "idle"
    /\ UNCHANGED <<activeMCPConnections, clients, req, fitIn, fitOut, nsIn, nsOut, estIn, estOut>>
    /\ LET q == [bee[b] EXCEPT !.kind = "connect", !.id = id, !.chatId = chatId]
       IN IF ACTIVE[id] # NotActive
          THEN /\ chatStore' = AfterConnect(chatStore, chatId, id)
               /\ bee' = [bee EXCEPT ![b] = [q EXCEPT !.pc = "responded", !.status = 200]]
               /\ UNCHANGED ACTIVE
          ELSE IF id \notin CATALOGUE
          THEN /\ bee' = [bee EXCEPT ![b] = [q EXCEPT !.pc = "responded", !.status = 500]]
               /\ UNCHANGED <<ACTIVE, chatStore>>
          ELSE /\ bee' = [bee EXCEPT ![b] = [q EXCEPT !.pc = "handshake"]]
               /\ UNCHANGED <<ACTIVE, chatStore>>

\* client.connect, then MCPTool.fromClient, returns or throws
ConnectAdvances(b, ok) ==
    /\ bee[b].pc \in {"handshake", "discover"}
    /\ UNCHANGED <<activeMCPConnections, clients, req, fitIn, fitOut, nsIn, nsOut, estIn, estOut>>
    /\ IF ~ok
       THEN /\ bee' = [bee EXCEPT ![b].pc = "responded", ![b].status = 500]
            /\ UNCHANGED <<ACTIVE, chatStore>>
       ELSE IF bee[b].pc = "handshake"
       THEN /\ bee' = [bee EXCEPT ![b].pc = "discover"]
            /\ UNCHANGED <<ACTIVE, chatStore>>
       ELSE /\ ACTIVE' = [ACTIVE EXCEPT ![bee[b].id] = b]
            /\ chatStore' = AfterConnect(chatStore, bee[b].chatId, bee[b].id)
            /\ bee' = [bee EXCEPT ![b].pc = "responded", ![b].status = 200]

DisconnectRequest(b, id, chatId) ==
    /\ bee[b].pc = "idle"
    /\ UNCHANGED <<activeMCPConnections, clients, req, fitIn, fitOut, nsIn, nsOut, estIn, estOut>>
    /\ LET q == [bee[b] EXCEPT !.kind = "disconnect", !.id = id, !.chatId = chatId]
       IN IF ACTIVE[id] = NotActive
          THEN /\ chatStore' = AfterDisconnect(chatStore, chatId)
               /\ bee' = [bee EXCEPT ![b] = [q EXCEPT !.pc = "responded", !.status = 200]]
               /\ UNCHANGED ACTIVE
          ELSE /\ bee' = [bee EXCEPT ![b] = [q EXCEPT !.pc = "closing"]]
               /\ UNCHANGED <<ACTIVE, chatStore>>

\* active.client.close returns
CloseReturns(b) ==
    /\ bee[b].pc = "closing"
    /\ ACTIVE' = [ACTIVE EXCEPT ![bee[b].id] = NotActive]
    /\ chatStore' = AfterDisconnect(chatStore, bee[b].chatId)
    /\ bee' = [bee EXCEPT ![b].pc = "responded", ![b].status = 200]
    /\ UNCHANGED <<activeMCPConnections, clients, req, fitIn, fitOut, nsIn, nsOut, estIn, estOut>>

\* mutant: the user message is stored before the agent is awaited
ChatRequestStoresFirst(b, id, chatId) ==
    /\ bee[b].pc = "idle"
    /\ UNCHANGED <<activeMCPConnections, clients, req, fitIn, fitOut, nsIn, nsOut, estIn, estOut, ACTIVE>>
    /\ LET q == [bee[b] EXCEPT !.kind = "chat", !.id = id, !.chatId = chatId]
       IN IF ACTIVE[id] = NotActive
          THEN /\ chatStore' = StoreExchange(chatStore, chatId, id, b)
               /\ bee' = [bee EXCEPT ![b] = [q EXCEPT !.pc = "responded", !.status = 500]]
          ELSE /\ bee' = [bee EXCEPT ![b] = [q EXCEPT !.pc = "agent"]]
               /\ chatStore' = IF chatId = NoChatId THEN chatStore
                               ELSE LET g == getOrCreateChat(chatStore, chatId, id)
                                    IN addMessageToChat(g.store, g.id,
                                                        [role |-> "user", by |-> b])

ChatRequest(b, id, chatId) ==
    /\ bee[b].pc = "idle"
    /\ UNCHANGED <<activeMCPConnections, clients, req, fitIn, fitOut, nsIn, nsOut, estIn, estOut, ACTIVE>>
    /\ LET q == [bee[b] EXCEPT !.kind = "chat", !.id = id, !.chatId = chatId]
       IN IF ACTIVE[id] = NotActive
          THEN /\ chatStore' = StoreExchange(chatStore, chatId, id, b)
               /\ bee' = [bee EXCEPT ![b] = [q EXCEPT !.pc = "responded", !.status = 500]]
          ELSE /\ bee' = [bee EXCEPT ![b] = [q EXCEPT !.pc = "agent"]]
               /\ UNCHANGED chatStore

\* active.agent.run returns or throws; a result with text content is then
\* sent to the formatter, whose failure chatWithAgent catches
ChatAdvances(b, ok, text) ==
    /\ bee[b].pc \in {"agent", "format"}
    /\ UNCHANGED <<activeMCPConnections, clients, req, fitIn, fitOut, nsIn, nsOut, estIn, estOut, ACTIVE>>
    /\ IF bee[b].pc = "agent" /\ ok /\ text
       THEN /\ bee' = [bee EXCEPT ![b].pc = "format"]
            /\ UNCHANGED chatStore
       ELSE /\ chatStore' = StoreExchange(chatStore, bee[b].chatId, bee[b].id, b)
            /\ bee' = [bee EXCEPT ![b].pc = "responded",
                                  ![b].status = IF bee[b].pc = "agent" /\ ~ok THEN 500 ELSE 200]

RecommendRequest(b, blank, chatId) ==
    /\ bee[b].pc = "idle"
    /\ UNCHANGED <<activeMCPConnections, clients, req, fitIn, fitOut, nsIn, nsOut, estIn, estOut, ACTIVE>>
    /\ LET q == [bee[b] EXCEPT !.kind = "recommend", !.chatId = chatId]
       IN IF blank
          THEN /\ chatStore' = StoreExchange(chatStore, chatId, NoMcp, b)
               /\ bee' = [bee EXCEPT ![b] = [q EXCEPT !.pc = "responded", !.status = 200]]
          ELSE /\ bee' = [bee EXCEPT ![b] = [q EXCEPT !.pc = "recommend"]]
               /\ UNCHANGED chatStore

\* the recommendation call returns, or throws and the keyword search answers
RecommendReturns(b) ==
    /\ bee[b].pc = "recommend"
    /\ chatStore' = StoreExchange(chatStore, bee[b].chatId, NoMcp, b)
    /\ bee' = [bee EXCEPT ![b].pc = "responded", ![b].status = 200]
    /\ UNCHANGED <<activeMCPConnections, clients, req, fitIn, fitOut, nsIn, nsOut, estIn, estOut, ACTIVE>>

\* the chat ids a client can send: none, one it was given, one it made up
ChatIds == (0..Len(chatStore)) \cup {StrangerId}

NextBee ==
    \/ \E b \in BeeSlots, id \in BeeIds, chatId \in ChatIds : ConnectRequest(b, id, chatId)
    \/ \E b \in BeeSlots, ok \in BOOLEAN : ConnectAdvances(b, ok)
    \/ \E b \in BeeSlots, id \in BeeIds, chatId \in ChatIds : DisconnectRequest(b, id, chatId)
    \/ \E b \in BeeSlots : CloseReturns(b)
    \/ \E b \in BeeSlots, id \in BeeIds, chatId \in ChatIds : ChatRequest(b, id, chatId)
    \/ \E b \in BeeSlots, ok \in BOOLEAN, text \in BOOLEAN : ChatAdvances(b, ok, text)
    \/ \E b \in BeeSlots, blank \in BOOLEAN, chatId \in ChatIds : RecommendRequest(b, blank, chatId)
    \/ \E b \in BeeSlots : RecommendReturns(b)

SpecBee == Init /\ [][NextBee]_vars

\* C38: every stored chat whose mcpId is a provider id has that provider in
\* the active-connection table
C38_MarkedChatsAreConnected ==
    \A k \in 1..Len(chatStore) :
        chatStore[k].mcpId # NoMcp => ACTIVE[chatStore[k].mcpId] # NotActive

\* the number of stored messages a request pushed, over all chats
StoredBy(b) ==
    Cardinality({p \in (1..Len(chatStore)) \X (1..(2 * Cardinality(BeeSlots))) :
                    /\ p[2] <= Len(chatStore[p[1]].history)
                    /\ chatStore[p[1]].history[p[2]].by = b})

\* a history of complete pairs: user message then assistant message, both
\* pushed by the same request
CompletePairs(h) ==
    /\ Len(h) % 2 = 0
    /\ \A i \in 1..Len(h) :
          /\ h[i].role = (IF i % 2 = 1 THEN "user" ELSE "assistant")
          /\ i % 2 = 1 => h[i].by = h[i + 1].by

\* C39: under any interleaving of chat and recommend requests every stored
\* history is made of complete user/assistant pairs, a request that carries a
\* chat id has stored exactly one pair once it is answered (whether its agent
\* call succeeded or failed) and nothing before, and a step only appends to
\* the histories
C39_HistoryIsCompletePairs ==
    /\ [](/\ \A k \in 1..Len(chatStore) : CompletePairs(chatStore[k].history)
          /\ \A b \in BeeSlots :
                StoredBy(b) = (IF /\ bee[b].kind \in {"chat", "recommend"}
                                  /\ bee[b].chatId # NoChatId
                                  /\ bee[b].pc = "responded"
                               THEN 2 ELSE 0))
    /\ [][\A k \in 1..Len(chatStore) :
            /\ k <= Len(chatStore')
            /\ chatStore'[k].id = chatStore[k].id
            /\ Len(chatStore'[k].history) >= Len(chatStore[k].history)
            /\ SubSeq(chatStore'[k].history, 1, Len(chatStore[k].history))
                 = chatStore[k].history]_vars

\* one chat holds the pair of a chat request whose agent call failed and the
\* pair of a recommend request
C39_Witness ==
    \E k \in 1..Len(chatStore), b, c \in BeeSlots :
        /\ Len(chatStore[k].history) = 4
        /\ bee[b].kind = "chat" /\ bee[b].id \in CATALOGUE /\ bee[b].status = 500
        /\ bee[b].chatId = chatStore[k].id
        /\ bee[c].kind = "recommend" /\ bee[c].chatId = chatStore[k].id
        /\ {chatStore[k].history[i].by : i \in 1..4} = {b, c}

====
